---- MODULE Spec2Model ----
(***************************************************************************)
(* Model of authenticode/src/win_cert.rs: the attribute certificate table  *)
(* iterator (AttributeCertificateIterator::new / next), the table          *)
(* validator check_total_size_valid, align_up_to_8 and                     *)
(* AttributeCertificate::get_authenticode_signature.                       *)
(*                                                                         *)
(* Byte slices are sequences of integers 0..255.  A Rust slice index i     *)
(* (0-based) is element i+1 of the sequence.                               *)
(***************************************************************************)
EXTENDS Integers, Sequences, FiniteSets, TLC

VARIABLES
    pe,              \* the PE image: data() and certificate_table_range()
    written,         \* the entry descriptors the image's table was encoded from
    pc,              \* "start": before new; "iter": an iterator exists; "noiter": new gave none
    newResult,       \* what AttributeCertificateIterator::new returned
    remaining_data,  \* AttributeCertificateIterator.remaining_data (the cursor)
    returned,        \* every value next() has returned so far, in call order
    sig,             \* the last get_authenticode_signature call on the newest entry
    alignArg,        \* the argument of align_up_to_8
    aligned,         \* align_up_to_8(alignArg), once called
    realigned        \* align_up_to_8 of that result, once called

alignVars == <<alignArg, aligned, realigned>>

vars == <<pe, written, pc, newResult, remaining_data, returned, sig, alignVars>>

---------------------------------------------------------------------------
(* Bounds of the model *)

\* most entries encoded into one table
MaxEntries == 2
\* longest payload of an encoded entry
MaxPayload == 4
\* how many bytes the table range may stop short of the end of the image
MaxTrunc == 8
\* bytes of the image in front of the certificate table
PrefixLen == 3
\* most calls of next() on one iterator
MaxCalls == 4
\* align_up_to_8 is tried on 0..MaxAlignVal and on the MaxAlignVal + 1
\* largest values of usize
MaxAlignVal == 24

---------------------------------------------------------------------------
(* Program constants *)

WIN_CERT_REVISION_2_0 == 512

WIN_CERT_TYPE_PKCS_SIGNED_DATA == 2

header_size == 8

ALIGN == 8

\* usize::MAX, with usize scaled to 31 bits
UsizeMax == 2147483647

---------------------------------------------------------------------------
(* Option / slice / integer helpers of the Rust core library, as used      *)

None == [tag |-> "None"]

Some(x) == [tag |-> "Some", val |-> x]

\* usize::checked_sub
checked_sub(a, b) == IF a >= b THEN Some(a - b) ELSE None

\* a variant that wraps around instead of failing
checked_add_wrapping(a, b) ==
    IF b > UsizeMax - a THEN Some(b - (UsizeMax - a) - 1) ELSE Some(a + b)

\* usize::checked_add
checked_add(a, b) == IF b > UsizeMax - a THEN None ELSE Some(a + b)

\* a variant that reads the four bytes most significant first
u32_from_be_bytes(b) == b[4] + 256 * b[3] + 65536 * b[2] + 16777216 * b[1]

\* u32::from_le_bytes(bytes[0..4])
u32_from_le_bytes(b) == b[1] + 256 * b[2] + 65536 * b[3] + 16777216 * b[4]

\* u16::from_le_bytes(bytes[0..2])
u16_from_le_bytes(b) == b[1] + 256 * b[2]

\* a variant that refuses a range ending at the end of the slice
slice_get_strict_end(s, from, to) ==
    IF from <= to /\ to < Len(s) THEN Some(SubSeq(s, from + 1, to)) ELSE None

\* <[u8]>::get(from..to): None when from > to or to > len
slice_get(s, from, to) ==
    IF from <= to /\ to <= Len(s) THEN Some(SubSeq(s, from + 1, to)) ELSE None

\* <[u8]>::get(from..): None when from > len
slice_get_from(s, from) ==
    IF from <= Len(s) THEN Some(SubSeq(s, from + 1, Len(s))) ELSE None

\* crate::usize_from_u32: a lossless widening
usize_from_u32(v) == v

---------------------------------------------------------------------------
(* align_up_to_8 *)

\* a variant that forgets the padding
align_up_to_8_no_padding(val) == Some(val)

\* a variant that adds a full 8 bytes to a size that is already aligned
align_up_to_8_always_pads(val) == checked_add(val, ALIGN - (val % ALIGN))

\* a variant that rounds the payload size instead of the entry size
align_up_to_8_payload_only(val) ==
    LET v == val - header_size
        r == v % ALIGN
    IN  IF r = 0 THEN Some(v) ELSE checked_add(v, ALIGN - r)

align_up_to_8(val) ==
    LET r == val % ALIGN
    IN  IF r = 0
        THEN Some(val)
        ELSE LET sub == checked_sub(ALIGN, r).val
             IN  checked_add(val, sub)

---------------------------------------------------------------------------
(* Items of the iterator *)

OkCert(rev, ty, data) ==
    [tag |-> "Ok", revision |-> rev, certificate_type |-> ty, data |-> data]

\* Err(AttributeCertificateError::InvalidCertificateSize { size })
ErrCertSize(size) == [tag |-> "Err", err |-> "InvalidCertificateSize", size |-> size]

\* a variant that leaves the cursor where it was
EndWithError_keep_cursor(rem, err) == [item |-> err, remaining_data |-> rem]

\* "self.remaining_data = &[]; return Some(Err(cert_size_err))": the value
\* returned and the cursor afterwards
EndWithError(rem, err) == [item |-> err, remaining_data |-> <<>>]

\* a variant that empties the cursor on this exit as well
SilentStop_clears(rem) == [item |-> None, remaining_data |-> <<>>]

\* the `?` of the advance: next() returns None and the cursor is untouched
SilentStop(rem) == [item |-> None, remaining_data |-> rem]

\* a variant that clamps the end of the payload to the bytes available
CertData_clamped(cert_bytes, cert_data_end) ==
    slice_get(cert_bytes, header_size,
              IF cert_data_end > Len(cert_bytes) THEN Len(cert_bytes) ELSE cert_data_end)

\* a variant that takes the payload up to the next 8-byte boundary
CertData_with_padding(cert_bytes, cert_data_end) ==
    slice_get(cert_bytes, header_size, ((cert_data_end + 7) \div 8) * 8)

\* cert_bytes.get(header_size..cert_data_end)
CertData(cert_bytes, cert_data_end) == slice_get(cert_bytes, header_size, cert_data_end)

\* a variant of next() that refuses an entry whose revision is not 2.0
IterNext_checks_revision(rem) ==
    IF Len(rem) < header_size
    THEN [item |-> None, remaining_data |-> rem]
    ELSE
    LET cert_bytes == rem
        cert_size32 == u32_from_le_bytes(SubSeq(cert_bytes, 1, 4))
        cert_size_err == ErrCertSize(cert_size32)
        cert_size == usize_from_u32(cert_size32)
        revision == u16_from_le_bytes(SubSeq(cert_bytes, 5, 6))
        certificate_type == u16_from_le_bytes(SubSeq(cert_bytes, 7, 8))
        cert_data_size == checked_sub(cert_size, header_size)
    IN  IF cert_data_size = None \/ revision # WIN_CERT_REVISION_2_0
        THEN EndWithError(rem, cert_size_err)
        ELSE
        LET cert_data == CertData(cert_bytes, header_size + cert_data_size.val)
        IN  IF cert_data = None
            THEN EndWithError(rem, cert_size_err)
            ELSE
            LET size_rounded_up == align_up_to_8(cert_size)
                rest == IF size_rounded_up = None
                        THEN None
                        ELSE slice_get_from(cert_bytes, size_rounded_up.val)
            IN  IF rest = None
                THEN SilentStop(rem)
                ELSE [item |-> OkCert(revision, certificate_type, cert_data.val),
                      remaining_data |-> rest.val]

\* One call of <AttributeCertificateIterator as Iterator>::next on cursor rem:
\* the value returned and the cursor afterwards.
IterNext(rem) ==
    IF Len(rem) < header_size
    THEN [item |-> None, remaining_data |-> rem]
    ELSE
    LET cert_bytes == rem
        cert_size32 == u32_from_le_bytes(SubSeq(cert_bytes, 1, 4))
        cert_size_err == ErrCertSize(cert_size32)
        cert_size == usize_from_u32(cert_size32)
        revision == u16_from_le_bytes(SubSeq(cert_bytes, 5, 6))
        certificate_type == u16_from_le_bytes(SubSeq(cert_bytes, 7, 8))
        cert_data_size == checked_sub(cert_size, header_size)
    IN  IF cert_data_size = None
        THEN EndWithError(rem, cert_size_err)
        ELSE
        LET cert_data_end == checked_add(header_size, cert_data_size.val)
        IN  IF cert_data_end = None
            THEN EndWithError(rem, cert_size_err)
            ELSE
            LET cert_data == CertData(cert_bytes, cert_data_end.val)
            IN  IF cert_data = None
                THEN EndWithError(rem, cert_size_err)
                ELSE
                LET size_rounded_up == align_up_to_8(cert_size)
                IN  IF size_rounded_up = None
                    THEN SilentStop(rem)
                    ELSE
                    LET rest == slice_get_from(cert_bytes, size_rounded_up.val)
                    IN  IF rest = None
                        THEN SilentStop(rem)
                        ELSE [item |-> OkCert(revision, certificate_type, cert_data.val),
                              remaining_data |-> rest.val]

---------------------------------------------------------------------------
(* check_total_size_valid *)

\* while iter.next().is_some() {}: the cursor when next() first returns None
RECURSIVE Exhaust(_)
Exhaust(rem) ==
    LET r == IterNext(rem)
    IN  IF r.item = None THEN r.remaining_data ELSE Exhaust(r.remaining_data)

\* the items next() returns to that loop before the first None
RECURSIVE ExhaustItems(_)
ExhaustItems(rem) ==
    LET r == IterNext(rem)
    IN  IF r.item = None THEN <<>> ELSE <<r.item>> \o ExhaustItems(r.remaining_data)

\* a variant that also refuses a table whose dry run met an error
check_total_size_valid_no_errors(rem) ==
    /\ Exhaust(rem) = <<>>
    /\ \A i \in 1..Len(ExhaustItems(rem)) : ExhaustItems(rem)[i].tag # "Err"

\* a variant that tolerates a leftover shorter than a header
check_total_size_valid_short_tail(rem) == Len(Exhaust(rem)) < header_size

\* a variant that forgets to look at the cursor after the dry run
check_total_size_valid_unchecked(rem) == Len(Exhaust(rem)) >= 0

check_total_size_valid(rem) == Exhaust(rem) = <<>>

---------------------------------------------------------------------------
(* AttributeCertificateIterator::new *)

RangeNone == [tag |-> "OkNone"]

RangeErr == [tag |-> "Err"]

RangeSome(start, end) == [tag |-> "OkSome", start |-> start, end |-> end]

NewOkNone == [tag |-> "OkNone"]

NewErr(e) == [tag |-> "Err", err |-> e]

NewOkSome(rem) == [tag |-> "OkSome", remaining_data |-> rem]

NotCalled == [tag |-> "NotCalled"]

\* a variant that hands out the cursor the dry run has used up
AttributeCertificateIterator_new_used_cursor(image) ==
    IF image.range.tag = "OkSome"
    THEN LET got == slice_get(image.data, image.range.start, image.range.end)
         IN  IF got = None
             THEN NewErr("OutOfBounds")
             ELSE IF ~check_total_size_valid(got.val)
                  THEN NewErr("InvalidSize")
                  ELSE NewOkSome(Exhaust(got.val))
    ELSE IF image.range.tag = "OkNone"
         THEN NewOkNone
         ELSE NewErr("OutOfBounds")

\* a variant that reports an unresolvable range as an absent table
AttributeCertificateIterator_new_err_as_none(image) ==
    IF image.range.tag = "OkSome"
    THEN LET got == slice_get(image.data, image.range.start, image.range.end)
         IN  IF got = None
             THEN NewErr("OutOfBounds")
             ELSE IF ~check_total_size_valid(got.val)
                  THEN NewErr("InvalidSize")
                  ELSE NewOkSome(got.val)
    ELSE NewOkNone

AttributeCertificateIterator_new(image) ==
    IF image.range.tag = "OkSome"
    THEN LET got == slice_get(image.data, image.range.start, image.range.end)
         IN  IF got = None
             THEN NewErr("OutOfBounds")
             ELSE IF ~check_total_size_valid(got.val)
                  THEN NewErr("InvalidSize")
                  ELSE NewOkSome(got.val)
    ELSE IF image.range.tag = "OkNone"
         THEN NewOkNone
         ELSE NewErr("OutOfBounds")

---------------------------------------------------------------------------
(* AttributeCertificate::get_authenticode_signature *)

\* parse: what AuthenticodeSignature::from_bytes answers for the payload
\* ("Ok" or "Err"); parser_input: the bytes handed to it, None if not invoked.
SigResult(result, parser_input) == [result |-> result, parser_input |-> parser_input]

\* a variant that looks at the certificate type first
get_authenticode_signature_type_first(cert, parse) ==
    IF cert.certificate_type # WIN_CERT_TYPE_PKCS_SIGNED_DATA
    THEN SigResult([tag |-> "Err", err |-> "InvalidCertificateType",
                    val |-> cert.certificate_type], None)
    ELSE IF cert.revision # WIN_CERT_REVISION_2_0
         THEN SigResult([tag |-> "Err", err |-> "InvalidCertificateRevision",
                         val |-> cert.revision], None)
         ELSE IF parse = "Ok"
              THEN SigResult([tag |-> "Ok", err |-> "", val |-> 0],
                             Some(cert.data))
              ELSE SigResult([tag |-> "Err", err |-> "InvalidSignature", val |-> 0],
                             Some(cert.data))

get_authenticode_signature(cert, parse) ==
    IF cert.revision # WIN_CERT_REVISION_2_0
    THEN SigResult([tag |-> "Err", err |-> "InvalidCertificateRevision",
                    val |-> cert.revision], None)
    ELSE IF cert.certificate_type # WIN_CERT_TYPE_PKCS_SIGNED_DATA
         THEN SigResult([tag |-> "Err", err |-> "InvalidCertificateType",
                         val |-> cert.certificate_type], None)
         ELSE IF parse = "Ok"
              THEN SigResult([tag |-> "Ok", err |-> "", val |-> 0],
                             Some(cert.data))
              ELSE SigResult([tag |-> "Err", err |-> "InvalidSignature", val |-> 0],
                             Some(cert.data))

---------------------------------------------------------------------------
(* The images the model runs on: the wire format of section 6 of the       *)
(* specification, applied to bounded lists of entry descriptors.           *)

u32_to_le_bytes(v) ==
    <<v % 256, (v \div 256) % 256, (v \div 65536) % 256, (v \div 16777216) % 256>>

u16_to_le_bytes(v) == <<v % 256, (v \div 256) % 256>>

Zeros(n) == [i \in 1..n |-> 0]

\* the payload bytes of the model's entry of payload length p
Payload(p) == [i \in 1..p |-> 16 * p + i]

Descriptor(size, rev, ty, data) ==
    [size |-> size, revision |-> rev, certificate_type |-> ty, data |-> data]

\* header, payload, then 0-7 padding bytes up to the next multiple of 8
EncodeEntry(e) ==
    LET body == u32_to_le_bytes(e.size) \o u16_to_le_bytes(e.revision)
                \o u16_to_le_bytes(e.certificate_type) \o e.data
    IN  body \o Zeros((8 - (Len(body) % 8)) % 8)

RECURSIVE EncodeTable(_)
EncodeTable(es) ==
    IF es = <<>> THEN <<>> ELSE EncodeEntry(Head(es)) \o EncodeTable(Tail(es))

\* size = 8 + payload length
WellFormed(e) == e.size = 8 + Len(e.data)

Revisions == {WIN_CERT_REVISION_2_0, 768}

Types == {WIN_CERT_TYPE_PKCS_SIGNED_DATA, 1}

\* declared sizes that do not describe the bytes that follow
BadSizes == {4, 264}

Descriptors ==
    {Descriptor(8 + p, rev, ty, Payload(p)) :
        p \in 0..MaxPayload, rev \in Revisions, ty \in Types}
    \cup {Descriptor(s, WIN_CERT_REVISION_2_0, WIN_CERT_TYPE_PKCS_SIGNED_DATA, <<>>) :
        s \in BadSizes}

DescriptorLists == UNION {[1..n -> Descriptors] : n \in 0..MaxEntries}

Prefix == [i \in 1..PrefixLen |-> 77]

ImageData(es) == Prefix \o EncodeTable(es)

\* the answers of certificate_table_range() tried on an image
RangeAnswers(data) ==
    {RangeNone, RangeErr}
    \cup {RangeSome(PrefixLen, Len(data) - t) :
            t \in {u \in 0..MaxTrunc : Len(data) - u >= PrefixLen}}
    \cup {RangeSome(PrefixLen, Len(data) + 1),
          RangeSome(PrefixLen, PrefixLen - 1),
          RangeSome(Len(data), Len(data)),
          RangeSome(Len(data) + 1, Len(data) + 1)}

\* the table bytes of an image whose range lies inside data()
TableOf(image) == slice_get(image.data, image.range.start, image.range.end)

---------------------------------------------------------------------------
(* Specification Spec: the public interface, new then next / signature     *)

Init ==
    /\ written \in DescriptorLists
    /\ \E r \in RangeAnswers(ImageData(written)) :
           pe = [data |-> ImageData(written), range |-> r]
    /\ pc = "start"
    /\ newResult = NotCalled
    /\ remaining_data = <<>>
    /\ returned = <<>>
    /\ sig = NotCalled
    /\ alignArg = 0
    /\ aligned = NotCalled
    /\ realigned = NotCalled

New ==
    /\ pc = "start"
    /\ LET res == AttributeCertificateIterator_new(pe)
       IN  /\ newResult' = res
           /\ IF res.tag = "OkSome"
              THEN pc' = "iter" /\ remaining_data' = res.remaining_data
              ELSE pc' = "noiter" /\ UNCHANGED remaining_data
    /\ UNCHANGED <<pe, written, returned, sig, alignVars>>

Next_ ==
    /\ pc = "iter"
    /\ Len(returned) < MaxCalls
    /\ LET r == IterNext(remaining_data)
       IN  /\ remaining_data' = r.remaining_data
           /\ returned' = Append(returned, r.item)
    /\ sig' = NotCalled
    /\ UNCHANGED <<pe, written, pc, newResult, alignVars>>

GetAuthenticodeSignature ==
    /\ pc = "iter"
    /\ returned # <<>>
    /\ returned[Len(returned)].tag = "Ok"
    /\ sig = NotCalled
    /\ \E parse \in {"Ok", "Err"} :
           sig' = [tag |-> "Called", cert |-> returned[Len(returned)],
                   parse |-> parse,
                   out |-> get_authenticode_signature(returned[Len(returned)], parse)]
    /\ UNCHANGED <<pe, written, pc, newResult, remaining_data, returned, alignVars>>

Next == New \/ Next_ \/ GetAuthenticodeSignature

Spec == Init /\ [][Next]_vars

---------------------------------------------------------------------------
(* Specification SpecRaw: an iterator built directly over any table bytes, *)
(* as check_total_size_valid builds it, driven by next(); the dry run of   *)
(* new, one call of next() at a time                                       *)

InitRaw ==
    /\ written \in DescriptorLists
    /\ \E r \in RangeAnswers(ImageData(written)) :
           /\ pe = [data |-> ImageData(written), range |-> r]
           /\ r.tag = "OkSome"
           /\ TableOf(pe) # None
           /\ remaining_data = TableOf(pe).val
    /\ pc = "iter"
    /\ newResult = NotCalled
    /\ returned = <<>>
    /\ sig = NotCalled
    /\ alignArg = 0
    /\ aligned = NotCalled
    /\ realigned = NotCalled

\* the end of the dry run: "iter.remaining_data.is_empty()" once next() has
\* returned None, and what new makes of it
FinishNew ==
    /\ pc = "iter"
    /\ newResult = NotCalled
    /\ returned # <<>>
    /\ returned[Len(returned)] = None
    /\ \A i \in 1..(Len(returned) - 1) : returned[i] # None
    /\ newResult' = IF remaining_data = <<>>
                    THEN NewOkSome(TableOf(pe).val)
                    ELSE NewErr("InvalidSize")
    /\ UNCHANGED <<pe, written, pc, remaining_data, returned, sig, alignVars>>

NextRaw == Next_ \/ FinishNew

SpecRaw == InitRaw /\ [][NextRaw]_vars

---------------------------------------------------------------------------
(* Specification SpecAlign: align_up_to_8 on small and on the largest      *)
(* offsets, and on its own result                                          *)

AlignInputs == (0..MaxAlignVal) \cup {UsizeMax - k : k \in 0..MaxAlignVal}

InitAlign ==
    /\ alignArg \in AlignInputs
    /\ aligned = NotCalled
    /\ realigned = NotCalled
    /\ written = <<>>
    /\ pe = [data |-> Prefix, range |-> RangeNone]
    /\ pc = "start"
    /\ newResult = NotCalled
    /\ remaining_data = <<>>
    /\ returned = <<>>
    /\ sig = NotCalled

AlignUp ==
    /\ aligned = NotCalled
    /\ aligned' = align_up_to_8(alignArg)
    /\ UNCHANGED <<pe, written, pc, newResult, remaining_data, returned, sig,
                   alignArg, realigned>>

AlignAgain ==
    /\ aligned # NotCalled
    /\ aligned # None
    /\ realigned = NotCalled
    /\ realigned' = align_up_to_8(aligned.val)
    /\ UNCHANGED <<pe, written, pc, newResult, remaining_data, returned, sig,
                   alignArg, aligned>>

NextAlign == AlignUp \/ AlignAgain

SpecAlign == InitAlign /\ [][NextAlign]_vars

---------------------------------------------------------------------------
(* Vocabulary of the properties *)

\* the range handed out covers exactly the encoded table
FullRange == pe.range = RangeSome(PrefixLen, Len(pe.data))

AllWellFormed == \A i \in 1..Len(written) : WellFormed(written[i])

\* the i-th value a faithful iteration of the encoded entries returns
Expected(i) ==
    IF i <= Len(written)
    THEN OkCert(written[i].revision, written[i].certificate_type, written[i].data)
    ELSE None

\* the range lies inside data()
RangeInside ==
    /\ pe.range.tag = "OkSome"
    /\ pe.range.start <= pe.range.end
    /\ pe.range.end <= Len(pe.data)

TableLen == pe.range.end - pe.range.start

\* the encoded lengths of the leading runs of well-formed entries
WellFormedPrefixLens ==
    {Len(EncodeTable(SubSeq(written, 1, j))) :
        j \in {n \in 0..Len(written) : \A i \in 1..n : WellFormed(written[i])}}

---------------------------------------------------------------------------
(* C1 *)

\* C1: a table encoded from N well-formed entries is accepted by new, and
\* the calls of next() return the N entries (revision, type, payload) in
\* order as Ok items and then None.
C1_RoundTrip ==
    (AllWellFormed /\ FullRange /\ newResult # NotCalled) =>
        /\ newResult = NewOkSome(EncodeTable(written))
        /\ \A i \in 1..Len(returned) : returned[i] = Expected(i)

C1_Witness ==
    /\ AllWellFormed /\ FullRange
    /\ Len(written) = 2
    /\ written[1] # written[2]
    /\ written[1].size % 8 # 0
    /\ Len(returned) = 3
    /\ returned[3] = None

---------------------------------------------------------------------------
(* C2 *)

\* C2: every item yielded by an iterator that new returned is a decoded
\* entry, never an InvalidCertificateSize error.
C2_NoErrorAfterNew ==
    pc = "iter" => \A i \in 1..Len(returned) : returned[i].tag # "Err"

---------------------------------------------------------------------------
(* C3 *)

\* C3: a table of well-formed, padded entries followed by k extra bytes is
\* refused with InvalidSize when 1 <= k <= 7 and accepted when k = 0.
C3_TrailingBytes ==
    (newResult # NotCalled /\ RangeInside /\ pe.range.start = PrefixLen) =>
        \A l \in WellFormedPrefixLens : \A k \in 0..7 :
            TableLen = l + k =>
                /\ k >= 1 => newResult = NewErr("InvalidSize") /\ pc = "noiter"
                /\ k = 0 => newResult.tag = "OkSome" /\ pc # "noiter"

C3_Witness ==
    /\ newResult = NewErr("InvalidSize")
    /\ RangeInside
    /\ Len(written) = 2
    /\ WellFormed(written[1])
    /\ TableLen = Len(EncodeEntry(written[1])) + 1

---------------------------------------------------------------------------
(* C4 *)

\* the size field of the entry at the front of cursor rem: the first four
\* bytes, least significant first
DeclaredSize(rem) == rem[1] + 256 * rem[2] + 65536 * rem[3] + 16777216 * rem[4]

\* this step is a call of next()
NextCalled == Len(returned') = Len(returned) + 1

\* C4: a call of next() on a cursor of 8 or more bytes whose entry declares
\* a size s < 8 returns InvalidCertificateSize{size: s}, and every call after
\* such an error returns None.
C4_UndersizedEntry ==
    /\ [][(NextCalled /\ Len(remaining_data) >= 8 /\ DeclaredSize(remaining_data) < 8)
            => returned' = Append(returned, ErrCertSize(DeclaredSize(remaining_data)))]_vars
    /\ [](\A i \in 1..Len(returned) :
            (returned[i].tag = "Err" /\ returned[i].size < 8) =>
                \A j \in (i + 1)..Len(returned) : returned[j] = None)

C4_Witness ==
    /\ Len(written) = 2
    /\ written[1].size = 4
    /\ FullRange
    /\ returned = <<ErrCertSize(4), None, None>>

---------------------------------------------------------------------------
(* C5 *)

\* C5: once a call of next() has returned an error or None, every later
\* call returns None.
C5_Fused ==
    \A i \in 1..Len(returned) :
        returned[i].tag \in {"Err", "None"} =>
            \A j \in (i + 1)..Len(returned) : returned[j] = None

C5_Witness ==
    \E i \in 2..Len(returned) :
        /\ returned[i - 1].tag = "Ok"
        /\ returned[i].tag = "Err"
        /\ Len(returned) >= i + 2

---------------------------------------------------------------------------
(* C6 *)

\* C6: on an iterator that new returned, whenever next() has ended
\* production (returned None or an error) the cursor is empty; None is never
\* returned while bytes remain.
C6_EndsEmpty ==
    (pc = "iter" /\ returned # <<>> /\ returned[Len(returned)].tag \in {"None", "Err"})
        => remaining_data = <<>>

C6_Witness ==
    /\ pc = "iter"
    /\ TableLen >= 16
    /\ Len(returned) = 2
    /\ returned[1].tag = "Ok"
    /\ returned[2] = None
    /\ remaining_data = <<>>

---------------------------------------------------------------------------
(* C7 *)

\* C7: for an empty table range inside the image new returns an iterator,
\* and the first call of next() on it returns None.
C7_EmptyTable ==
    (newResult # NotCalled /\ RangeInside /\ pe.range.start = pe.range.end) =>
        /\ newResult = NewOkSome(<<>>)
        /\ pc = "iter"
        /\ returned # <<>> => returned[1] = None

C7_Witness ==
    /\ RangeInside
    /\ pe.range.start = pe.range.end
    /\ written # <<>>
    /\ pc = "iter"
    /\ Len(returned) >= 1

---------------------------------------------------------------------------
(* C8 *)

\* C8: a call of next() on a cursor of 8 or more bytes whose entry declares
\* a size s >= 8 larger than the bytes remaining returns
\* InvalidCertificateSize{size: s}, hands out no entry and empties the cursor.
C8_OversizedEntry ==
    [][(NextCalled /\ Len(remaining_data) >= 8
            /\ DeclaredSize(remaining_data) >= 8
            /\ DeclaredSize(remaining_data) > Len(remaining_data))
        => /\ returned' = Append(returned, ErrCertSize(DeclaredSize(remaining_data)))
           /\ remaining_data' = <<>>]_vars

C8_Witness ==
    /\ Len(returned) = 2
    /\ returned[1].tag = "Ok"
    /\ returned[2].tag = "Err"
    /\ returned[2].size >= 8
    /\ remaining_data = <<>>

---------------------------------------------------------------------------
(* C9 *)

\* C9: new answers Ok(None) for an absent table, OutOfBounds for a range
\* the image could not compute and for a range not inside data(), whatever
\* the bytes are; no error case leaves an iterator.
C9_RangeMapping ==
    newResult # NotCalled =>
        /\ pe.range.tag = "OkNone" => newResult = NewOkNone
        /\ pe.range.tag = "Err" => newResult = NewErr("OutOfBounds")
        /\ (pe.range.tag = "OkSome" /\ ~RangeInside) => newResult = NewErr("OutOfBounds")
        /\ newResult.tag # "OkSome" => pc = "noiter" /\ returned = <<>>

C9_Witness ==
    /\ newResult = NewErr("OutOfBounds")
    /\ pe.range = RangeSome(PrefixLen, Len(pe.data) + 1)
    /\ Len(written) = 2
    /\ AllWellFormed
    /\ pc = "noiter"

---------------------------------------------------------------------------
(* C10 *)

\* C10: get_authenticode_signature reports a revision other than 0x0200 as
\* InvalidCertificateRevision(revision) whatever the type is, then a type
\* other than 0x0002 as InvalidCertificateType(type); the parser is handed
\* the payload only when both match, and its failure is InvalidSignature.
C10_CheckOrder ==
    sig # NotCalled =>
        LET c == sig.cert
            out == sig.out
        IN  /\ c.revision # 512 =>
                /\ out.result = [tag |-> "Err", err |-> "InvalidCertificateRevision",
                                 val |-> c.revision]
                /\ out.parser_input = None
            /\ (c.revision = 512 /\ c.certificate_type # 2) =>
                /\ out.result = [tag |-> "Err", err |-> "InvalidCertificateType",
                                 val |-> c.certificate_type]
                /\ out.parser_input = None
            /\ (c.revision = 512 /\ c.certificate_type = 2) =>
                /\ out.parser_input = Some(c.data)
                /\ sig.parse = "Err" => out.result.err = "InvalidSignature"
                /\ sig.parse = "Ok" => out.result.tag = "Ok"

C10_Witness ==
    /\ sig # NotCalled
    /\ sig.cert.revision = 768
    /\ sig.cert.certificate_type = 1
    /\ sig.out.result.err = "InvalidCertificateRevision"

---------------------------------------------------------------------------
(* C11 *)

\* C11: align_up_to_8(v) is the least multiple of 8 that is >= v whenever
\* that multiple is representable (0 -> 0, 1..8 -> 8, 9..16 -> 16), applying
\* it to its own result changes nothing, and it is None exactly when v is
\* not a multiple of 8 and v + (8 - v mod 8) exceeds the largest offset.
C11_AlignUp ==
    LET pad == 8 - (alignArg % 8)
        overflows == alignArg % 8 # 0 /\ pad > UsizeMax - alignArg
    IN  /\ aligned # NotCalled =>
            /\ aligned = None <=> overflows
            /\ aligned # None =>
                /\ aligned.val % 8 = 0
                /\ aligned.val >= alignArg
                /\ aligned.val - alignArg < 8
            /\ alignArg = 0 => aligned = Some(0)
            /\ alignArg \in 1..8 => aligned = Some(8)
            /\ alignArg \in 9..16 => aligned = Some(16)
        /\ realigned # NotCalled => realigned = aligned

C11_Witness ==
    /\ alignArg \in 9..15
    /\ aligned = Some(16)
    /\ realigned = Some(16)

\* the overflow case of C11 is reached
C11_OverflowReached == alignArg > UsizeMax - 7 /\ aligned = None

---------------------------------------------------------------------------
(* C12 *)

\* the table the iterator was built over
Table == TableOf(pe).val

\* where the cursor starts in the table
Offset == Len(Table) - Len(remaining_data)

\* the value the call of next() in this step returned
Returned == returned'[Len(returned')]

\* C12: every Ok entry handed out from a cursor at table offset off, with
\* declared size s, has s >= 8 and off + s inside the table, and its data is
\* exactly table[off + 8 .. off + s): no header, padding or outside byte.
C12_BoundsSafety ==
    [][(NextCalled /\ Returned.tag = "Ok") =>
        LET s == DeclaredSize(remaining_data)
        IN  /\ s >= 8
            /\ Offset + s <= Len(Table)
            /\ Len(Returned.data) = s - 8
            /\ Returned.data = SubSeq(Table, Offset + 8 + 1, Offset + s)]_vars

C12_Witness ==
    /\ Len(returned) = 2
    /\ returned[1].tag = "Ok"
    /\ returned[2].tag = "Ok"
    /\ Len(returned[2].data) = 3
    /\ returned[2].data # returned[1].data
    /\ remaining_data = <<>>

---------------------------------------------------------------------------
(* C13 *)

CountTag(t) == Cardinality({i \in 1..Len(returned) : returned[i].tag = t})

\* C13: every call of next() that returns an Ok entry shortens the cursor by
\* at least 8 bytes; over a table of L bytes at most L div 8 Ok items and at
\* most one error are returned, and every call after those returns None.
C13_Termination ==
    /\ [][(NextCalled /\ Returned.tag = "Ok")
            => Len(remaining_data') + 8 <= Len(remaining_data)]_vars
    /\ [](/\ CountTag("Ok") <= Len(Table) \div 8
          /\ CountTag("Err") <= 1
          /\ \A i \in 1..Len(returned) :
                i > (Len(Table) \div 8) + 1 => returned[i] = None)

C13_Witness ==
    /\ Len(Table) \div 8 = 2
    /\ Len(returned) = 4
    /\ returned[1].tag = "Ok"
    /\ returned[2].tag = "Ok"
    /\ returned[3] = None
    /\ returned[4] = None

---------------------------------------------------------------------------
(* C14 *)

RoundUp8(n) == ((n + 7) \div 8) * 8

\* the entry at the front of cursor rem fits, its padding does not
PaddingMissing(rem) ==
    /\ Len(rem) >= 8
    /\ DeclaredSize(rem) >= 8
    /\ DeclaredSize(rem) <= Len(rem)
    /\ RoundUp8(DeclaredSize(rem)) > Len(rem)

\* C14: when the entry at the front of the cursor fits but its size rounded
\* up to a multiple of 8 does not, next() returns None and leaves the cursor
\* unchanged; a dry run that stops this way makes new return InvalidSize.
C14_SilentStop ==
    /\ [][(NextCalled /\ PaddingMissing(remaining_data))
            => Returned = None /\ remaining_data' = remaining_data]_vars
    /\ []((newResult # NotCalled /\ PaddingMissing(remaining_data))
            => newResult = NewErr("InvalidSize"))

C14_Witness ==
    /\ newResult = NewErr("InvalidSize")
    /\ PaddingMissing(remaining_data)
    /\ Len(returned) = 2
    /\ returned[1].tag = "Ok"
    /\ returned[2] = None

\* the dry run taken step by step ends as new does
FinishNewAgrees == newResult # NotCalled => newResult = AttributeCertificateIterator_new(pe)

---------------------------------------------------------------------------
(* C15 *)

\* the aligned sizes of the Ok entries among items, added up
RECURSIVE SumAligned(_)
SumAligned(items) ==
    IF items = <<>>
    THEN 0
    ELSE (IF Head(items).tag = "Ok" THEN RoundUp8(8 + Len(Head(items).data)) ELSE 0)
         + SumAligned(Tail(items))

\* C15: the cursor is empty or the suffix of the table that starts at the
\* sum of the aligned sizes of the entries handed out, a multiple of 8; an
\* Ok step advances it by the declared size rounded up to a multiple of 8,
\* and no step moves it backwards.
C15_CursorInvariant ==
    /\ [](\/ remaining_data = <<>>
          \/ /\ remaining_data = SubSeq(Table, Offset + 1, Len(Table))
             /\ Offset % 8 = 0
             /\ Offset = SumAligned(returned))
    /\ [][NextCalled =>
            /\ Len(remaining_data') <= Len(remaining_data)
            /\ Returned.tag = "Ok" =>
                 Len(remaining_data) - Len(remaining_data')
                    = RoundUp8(DeclaredSize(remaining_data))]_vars

C15_Witness ==
    /\ Len(returned) = 1
    /\ returned[1].tag = "Ok"
    /\ Len(returned[1].data) = 3
    /\ Offset = 16
    /\ Len(remaining_data) >= 8

---------------------------------------------------------------------------
(* C16 *)

\* the i-th of the values items, and None after them
ItemOrNone(items, i) == IF i <= Len(items) THEN items[i] ELSE None

\* C16: the iterator new returns starts at the whole table slice, and its
\* calls of next() return what the dry run's calls returned: the same
\* entries, the same error, and None from the same call on.
C16_TwoPass ==
    pc = "iter" =>
        /\ newResult = NewOkSome(Table)
        /\ returned = <<>> => remaining_data = Table
        /\ LET dry == ExhaustItems(Table)
           IN  \A i \in 1..Len(returned) : returned[i] = ItemOrNone(dry, i)

C16_Witness ==
    /\ pc = "iter"
    /\ Len(returned) = 3
    /\ returned[1].tag = "Ok"
    /\ returned[2].tag = "Err"
    /\ returned[3] = None

---------------------------------------------------------------------------
(* C17 *)

\* the entry list written, with every revision and type set to one value:
\* two lists that differ only in revisions and types have the same one
Normalised ==
    [k \in 1..Len(written) |->
        [written[k] EXCEPT !.revision = 512, !.certificate_type = 2]]

\* the same range over the image encoded from entry list w
SiblingImage(w) == [data |-> ImageData(w), range |-> pe.range]

\* an item without its revision and type
Payloads(item) == IF item.tag = "Ok" THEN [tag |-> "Ok", data |-> item.data] ELSE item

\* the i-th value returned when the table of image is iterated
ItemOf(image, i) ==
    LET items == ExhaustItems(TableOf(image).val)
    IN  IF i <= Len(items) THEN items[i] ELSE None

\* C17: a table that differs only in the revisions and types of its entries
\* gets the same answer from new and the same items (count, payloads,
\* errors), compared here call by call with the table of the normalised
\* list; each Ok entry carries the revision and type written for it, and the
\* only error an item can be is InvalidCertificateSize.
C17_HeaderIndependence ==
    (newResult # NotCalled /\ sig = NotCalled) =>
        LET image == SiblingImage(Normalised)
            other == AttributeCertificateIterator_new(image)
            n == Len(returned)
        IN  /\ other.tag = newResult.tag
            /\ other.tag = "Err" => other = newResult
            /\ other.tag = "OkSome" =>
                 Len(other.remaining_data) = Len(newResult.remaining_data)
            /\ n > 0 =>
                 /\ Payloads(returned[n]) = Payloads(ItemOf(image, n))
                 /\ returned[n].tag = "Ok" =>
                      /\ returned[n].revision = written[n].revision
                      /\ returned[n].certificate_type = written[n].certificate_type
                 /\ returned[n].tag = "Err" => returned[n].err = "InvalidCertificateSize"

C17_Witness ==
    /\ Len(returned) = 2
    /\ returned[1].tag = "Ok"
    /\ returned[1].revision = 768
    /\ returned[1].certificate_type = 1
    /\ returned[2].tag = "Ok"
    /\ returned[2].revision = 512
    /\ returned[2].certificate_type = 2

---------------------------------------------------------------------------
(* C18 *)

\* the encoded length of the first n entries written: header, payload and
\* padding of each
RECURSIVE EncLen(_)
EncLen(n) == IF n = 0 THEN 0 ELSE EncLen(n - 1) + RoundUp8(8 + Len(written[n].data))

\* n leading entries are well formed and lie wholly inside the table
Fits(n) == (\A i \in 1..n : WellFormed(written[i])) /\ EncLen(n) <= TableLen

\* how many entries the table holds whole before anything goes wrong
FitCount == CHOOSE n \in 0..Len(written) : Fits(n) /\ (n = Len(written) \/ ~Fits(n + 1))

\* what is at the end of a table with tail bytes after its whole entries,
\* the first of them declaring size s
EndsLeftover(tail) == tail \in 1..7

EndsSilent(tail, s) == tail >= 8 /\ s >= 8 /\ s <= tail /\ RoundUp8(s) > tail

EndsError(tail, s) == tail >= 8 /\ (s < 8 \/ s > tail)

====
